---------------------------- MODULE Spec2Model ----------------------------
(***************************************************************************)
(* A model of evm-wallet: the AsyncWallet and Wallet classes of            *)
(* src/evm_wallet/wallet.py and the _BaseWallet class of                   *)
(* src/evm_wallet/_base_wallet.py.                                         *)
(*                                                                         *)
(* The wallet object is a handful of fields (network info, provider,       *)
(* keys, local nonce, cached chain id).  The JSON-RPC endpoint, the        *)
(* signer and the ERC-20 contracts belong to the wrapped client library:   *)
(* every call into them is an input of the action that makes it, drawn     *)
(* from a small set that includes, for the calls that change the wallet,   *)
(* the call raising.  A coroutine is a process that moves from one await   *)
(* to the next in one step.                                                *)
(*                                                                         *)
(* Python's None is the value None among numbers and NoneStr among         *)
(* strings.                                                                *)
(***************************************************************************)
EXTENDS Integers, Sequences, FiniteSets, TLC

(***************************************************************************)
(* Bounds of the model.                                                    *)
(***************************************************************************)
\* the transaction count of an account that has sent before, as an
\* endpoint reports it at connection time
MaxCount == 1
\* number of transactions the endpoints accept in one run
MaxSent == 2
\* largest raw balance an endpoint reports
MaxBalance == 2
\* largest decimals() an ERC-20 contract reports
MaxDecimals == 2
\* number of times the network setter refetches the nonce in one run
MaxSwitch == 1
\* number of blocks of a chain get_transactions scans
MaxChainBlocks == 2
\* number of transactions in a block
MaxBlockTxs == 2

(***************************************************************************)
(* Python values.                                                          *)
(***************************************************************************)
None == 0 - 1

NoneStr == "None"

\* bool(x) of an Optional[int]: None and 0 are both falsy
Truthy(x) == x /= None /\ x /= 0

\* bool(s) of an Optional[str]: None and "" are both falsy
TruthyStr(s) == s /= NoneStr /\ s /= ""

LowerCase == "abcdefghijklmnopqrstuvwxyz"

UpperCase == "ABCDEFGHIJKLMNOPQRSTUVWXYZ"

Char(s, i) == SubSeq(s, i, i)

CharUpper(c) ==
    IF \E i \in 1..26 : Char(LowerCase, i) = c
    THEN Char(UpperCase, CHOOSE i \in 1..26 : Char(LowerCase, i) = c)
    ELSE c

CharLower(c) ==
    IF \E i \in 1..26 : Char(UpperCase, i) = c
    THEN Char(LowerCase, CHOOSE i \in 1..26 : Char(UpperCase, i) = c)
    ELSE c

RECURSIVE UpperFrom(_, _)
UpperFrom(s, i) ==
    IF i > Len(s) THEN "" ELSE CharUpper(Char(s, i)) \o UpperFrom(s, i + 1)

RECURSIVE LowerFrom(_, _)
LowerFrom(s, i) ==
    IF i > Len(s) THEN "" ELSE CharLower(Char(s, i)) \o LowerFrom(s, i + 1)

\* str.upper() and str.lower()
upper(s) == UpperFrom(s, 1)

lower(s) == LowerFrom(s, 1)

\* str.startswith(prefix)
startswith(s, prefix) ==
    Len(s) >= Len(prefix) /\ SubSeq(s, 1, Len(prefix)) = prefix

\* Web3.to_checksum_address of forty zeros: no letter to re-case
ZERO_ADDRESS == "0x0000000000000000000000000000000000000000"

(***************************************************************************)
(* The static network table of _BaseWallet, as written in the source:      *)
(* five entries spell their chain id key 'chaind_id'.                      *)
(***************************************************************************)
NetworkNames ==
    {"Arbitrum Goerli", "Arbitrum Sepolia", "Arbitrum", "Avalanche",
     "Base", "Base Goerli", "Base Sepolia", "BSC",
     "BSC Testnet", "Ethereum", "Fantom", "Fantom Testnet",
     "Fuji", "Goerli", "Linea", "Linea Goerli",
     "Mumbai", "opBNB", "opBNB Testnet", "Optimism",
     "Optimism Sepolia", "Optimism Goerli", "Polygon", "Sepolia",
     "Scroll", "zkSync"}

network_map ==
  [n \in NetworkNames |->
    CASE
       n = "Arbitrum Goerli" ->
         [chain_id |-> 421613,
          rpc |-> "wss://arbitrum-goerli-rpc.publicnode.com",
          token |-> "ETH",
          explorer |-> "https://goerli.arbiscan.io"]
    []
       n = "Arbitrum Sepolia" ->
         [chain_id |-> 421614,
          rpc |-> "wss://arbitrum-sepolia-rpc.publicnode.com",
          token |-> "ETH",
          explorer |-> "https://sepolia.arbiscan.io"]
    []
       n = "Arbitrum" ->
         [chain_id |-> 42161,
          rpc |-> "wss://arbitrum-one-rpc.publicnode.com",
          token |-> "ETH",
          explorer |-> "https://arbiscan.io"]
    []
       n = "Avalanche" ->
         [chain_id |-> 43114,
          rpc |-> "wss://avalanche-c-chain-rpc.publicnode.com",
          token |-> "AVAX",
          explorer |-> "https://snowtrace.io/"]
    []
       n = "Base" ->
         [chain_id |-> 8453,
          rpc |-> "wss://base-rpc.publicnode.com",
          token |-> "ETH",
          explorer |-> "https://basescan.org/"]
    []
       n = "Base Goerli" ->
         [chain_id |-> 84531,
          rpc |-> "https://base-goerli.public.blastapi.io",
          token |-> "ETH",
          explorer |-> "https://goerli.basescan.org/"]
    []
       n = "Base Sepolia" ->
         [chain_id |-> 84532,
          rpc |-> "wss://base-sepolia-rpc.publicnode.com",
          token |-> "ETH",
          explorer |-> "https://sepolia.basescan.org/"]
    []
       n = "BSC" ->
         [chain_id |-> 56,
          rpc |-> "wss://bsc-rpc.publicnode.com",
          token |-> "BNB",
          explorer |-> "https://bscscan.com"]
    []
       n = "BSC Testnet" ->
         [chain_id |-> 97,
          rpc |-> "wss://bsc-testnet-rpc.publicnode.com",
          token |-> "BNB",
          explorer |-> "https://testnet.bscscan.com"]
    []
       n = "Ethereum" ->
         [chain_id |-> 1,
          rpc |-> "wss://ethereum-rpc.publicnode.com",
          token |-> "ETH",
          explorer |-> "https://etherscan.io"]
    []
       n = "Fantom" ->
         [chain_id |-> 250,
          rpc |-> "wss://fantom-rpc.publicnode.com",
          token |-> "FTM",
          explorer |-> "https://ftmscan.com/"]
    []
       n = "Fantom Testnet" ->
         [chain_id |-> 4002,
          rpc |-> "wss://fantom-testnet-rpc.publicnode.com",
          token |-> "FTM",
          explorer |-> "https://testnet.ftmscan.com/"]
    []
       n = "Fuji" ->
         [chain_id |-> 43113,
          rpc |-> "wss://avalanche-fuji-c-chain-rpc.publicnode.com",
          token |-> "AVAX",
          explorer |-> "https://testnet.snowtrace.io"]
    []
       n = "Goerli" ->
         [chain_id |-> 5,
          rpc |-> "wss://goerli.gateway.tenderly.co",
          token |-> "ETH",
          explorer |-> "https://goerli.etherscan.io"]
    []
       n = "Linea" ->
         [chain_id |-> 59144,
          rpc |-> "wss://linea.drpc.org",
          token |-> "ETH",
          explorer |-> "https://lineascan.build/"]
    []
       n = "Linea Goerli" ->
         [chain_id |-> 59140,
          rpc |-> "wss://linea-goerli.drpc.org",
          token |-> "ETH",
          explorer |-> "https://goerli.lineascan.build/"]
    []
       n = "Mumbai" ->
         [chain_id |-> 80001,
          rpc |-> "wss://polygon-mumbai-bor-rpc.publicnode.com",
          token |-> "MATIC",
          explorer |-> "https://mumbai.polygonscan.com/"]
    []
       n = "opBNB" ->
         [chaind_id |-> 204,
          rpc |-> "wss://opbnb-rpc.publicnode.com",
          token |-> "BNB",
          explorer |-> "https://opbnb.bscscan.com/"]
    []
       n = "opBNB Testnet" ->
         [chaind_id |-> 5611,
          rpc |-> "wss://opbnb-testnet-rpc.publicnode.com",
          token |-> "BNB",
          explorer |-> "https://opbnb-testnet.bscscan.com"]
    []
       n = "Optimism" ->
         [chain_id |-> 10,
          rpc |-> "wss://optimism-rpc.publicnode.com",
          token |-> "ETH",
          explorer |-> "https://optimistic.etherscan.io"]
    []
       n = "Optimism Sepolia" ->
         [chaind_id |-> 11155420,
          rpc |-> "wss://optimism-sepolia-rpc.publicnode.com",
          token |-> "ETH",
          explorer |-> "https://sepolia-optimism.etherscan.io/"]
    []
       n = "Optimism Goerli" ->
         [chain_id |-> 420,
          rpc |-> "wss://optimism-testnet.drpc.org",
          token |-> "ETH",
          explorer |-> "https://goerli-optimism.etherscan.io"]
    []
       n = "Polygon" ->
         [chain_id |-> 137,
          rpc |-> "wss://polygon-bor-rpc.publicnode.com",
          token |-> "MATIC",
          explorer |-> "https://polygonscan.com"]
    []
       n = "Sepolia" ->
         [chain_id |-> 11155111,
          rpc |-> "wss://ethereum-sepolia-rpc.publicnode.com",
          token |-> "ETH",
          explorer |-> "https://sepolia.etherscan.io"]
    []
       n = "Scroll" ->
         [chaind_id |-> 534352,
          rpc |-> "wss://scroll.drpc.org",
          token |-> "ETH",
          explorer |-> "https://scrollscan.com"]
    []
       n = "zkSync" ->
         [chain_id |-> 324,
          rpc |-> "wss://zksync.drpc.org",
          token |-> "ETH",
          explorer |-> "https://explorer.zksync.io"]]

\* the Network literal type (evm_wallet.types): the names of the table
Network == NetworkNames

\* the NetworkInfo typed dictionary (evm_wallet.types): its keys
NetworkInfo == {"network", "chain_id", "rpc", "token", "explorer"}

\* NETWORK_MAP of evm_wallet.globals, the table wallet.py reads:
\* name -> {chain id, RPC URL, native symbol, explorer URL}
NETWORK_MAP ==
    [n \in Network |->
        LET e == network_map[n] IN
        [chain_id |-> IF "chain_id" \in DOMAIN e THEN e.chain_id ELSE e.chaind_id,
         rpc      |-> e.rpc,
         token    |-> e.token,
         explorer |-> e.explorer]]

\* a Python value handed in as a network: a str or a dict
PyStr(s) == [type |-> "str", value |-> s]

PyDict(d) == [type |-> "dict", value |-> d]

\* utils._in_literal(value, Literal): value is one of the literal's strings
in_literal(value, literal) == value.type = "str" /\ value.value \in literal

\* utils._has_keys(value, TypedDict): value is a dict with every key of the type
has_keys(value, typed_dict) ==
    value.type = "dict" /\ typed_dict \subseteq DOMAIN value.value

(***************************************************************************)
(* The world outside the wallet: endpoints, keys, addresses.               *)
(***************************************************************************)
CustomRpc == "http://localhost:8545"

\* the chain id the node behind CustomRpc reports
CustomChainId == 1337

\* the public endpoints of the table, and the chain each one serves
KnownRpcs == {NETWORK_MAP[n].rpc : n \in Network}

ChainIdOfRpc ==
    [rpc \in KnownRpcs |->
        NETWORK_MAP[CHOOSE n \in Network : NETWORK_MAP[n].rpc = rpc].chain_id]

\* eth.chain_id of the node behind an endpoint
LiveChainId(rpc) == IF rpc \in KnownRpcs THEN ChainIdOfRpc[rpc] ELSE CustomChainId

\* a custom symbol in mixed case, as BSC testnet's tBNB
CustomToken == "tBNB"

CustomInfo(chain) ==
    [network  |-> "Custom",
     chain_id |-> chain,
     rpc      |-> CustomRpc,
     token    |-> CustomToken,
     explorer |-> "http://localhost:4000"]

\* the values a caller passes as a network: recognized names, a name the
\* table lacks, complete infos (chain id absent, right, wrong), and a dict
\* with no rpc
ValidNetworkInputs ==
    {PyStr("Ethereum"), PyStr("opBNB"),
     PyDict(CustomInfo(None)), PyDict(CustomInfo(CustomChainId)),
     PyDict(CustomInfo(1))}

InvalidNetworkInputs ==
    {PyStr("Ethereum Classic"),
     PyDict([network |-> "Custom", token |-> CustomToken])}

NetworkInputs == ValidNetworkInputs \cup InvalidNetworkInputs

\* the values a caller assigns to wallet.network: a recognized name, a
\* complete info whose chain id is not the endpoint's, a name the table lacks
SwitchNetworkInputs ==
    {PyStr("Ethereum"), PyDict(CustomInfo(1)), PyStr("Ethereum Classic")}

PrivateKeys == {"0x4c0883a6"}

\* Account.from_key(private_key).address
AccountAddress(private_key) == "0xab58"

\* the addresses the model knows, in checksum form
ChecksumAddresses ==
    {"0xAb58", "0xdAC1", "0x7a25"}

\* the spellings of those addresses callers pass: checksummed or lower case
AddressSpellings == ChecksumAddresses \cup {lower(c) : c \in ChecksumAddresses}

ChecksumOf ==
    [a \in AddressSpellings |->
        CHOOSE c \in ChecksumAddresses : lower(c) = lower(a)]

\* address.lower(), tabulated over the spellings
LowerOf == [a \in AddressSpellings |-> lower(a)]

\* to_checksum_address: the checksum spelling of the same 20 bytes
to_checksum_address(a) == ChecksumOf[a]

\* the values get_transaction_count answers with
TxCounts == {0, MaxCount}

Classes == {"AsyncWallet", "Wallet", "_BaseWallet"}

NoProvider == [cls |-> "none", transport |-> "none", rpc |-> NoneStr]

Web3Provider(cls, transport, rpc) ==
    [cls |-> cls, transport |-> transport, rpc |-> rpc]

NoNetwork == [network |-> NoneStr]

(***************************************************************************)
(* The wallet object.                                                      *)
(***************************************************************************)
VARIABLES
    cls,          \* the class constructed
    status,       \* "none" before __init__, "ok" after it, "error" if it raised
    err,          \* the exception the last __init__ or network setter raised
    private_key,
    public_key,
    network,      \* __network: a NetworkInfo
    provider,     \* __provider / _provider
    nonce,        \* __nonce
    chain_id,     \* __chain_id (AsyncWallet only)
    rpc_calls,    \* RPC calls the last __init__ or network setter made
    fetched,      \* what get_transaction_count last answered
    since,        \* transactions sent successfully since then
    epoch,        \* number of times the setter has refetched the nonce
    pc,           \* per caller: the await its running call is suspended at
    tx,           \* per caller: tx_params of the running call
    held,         \* per caller: tx_params build_transaction_params returned
    loc,          \* per caller: the other locals of the running call
    ret,          \* per caller: how its last call ended
    sent,         \* the transactions the endpoints accepted, in order
    last          \* the last read-only call: arguments, answers, result

wallet_vars ==
    <<cls, status, err, private_key, public_key, network, provider, nonce,
      chain_id, rpc_calls, fetched, since, epoch>>

proc_vars == <<pc, tx, held, loc, ret, sent>>

vars == <<wallet_vars, proc_vars, last>>

WalletInit ==
    /\ cls = "none"
    /\ status = "none"
    /\ err = NoneStr
    /\ private_key = NoneStr
    /\ public_key = NoneStr
    /\ network = NoNetwork
    /\ provider = NoProvider
    /\ nonce = None
    /\ chain_id = None
    /\ rpc_calls = 0
    /\ fetched = None
    /\ since = 0
    /\ epoch = 0

\* a faulty variant: the table is indexed without the final else
AsyncWallet_validate_network_lookup(value) ==
    IF in_literal(value, Network)
    THEN [ok |-> TRUE,
          info |-> ("network" :> value.value) @@ NETWORK_MAP[value.value]]
    ELSE IF has_keys(value, NetworkInfo)
    THEN [ok |-> TRUE, info |-> value.value]
    ELSE [ok |-> FALSE, error |-> "KeyError"]

\* AsyncWallet.__validate_network
AsyncWallet_validate_network(value) ==
    IF in_literal(value, Network)
    THEN [ok |-> TRUE,
          info |-> ("network" :> value.value) @@ NETWORK_MAP[value.value]]
    ELSE IF has_keys(value, NetworkInfo)
    THEN [ok |-> TRUE, info |-> value.value]
    ELSE [ok |-> FALSE, error |-> "InvalidNetworkInfo"]

\* _BaseWallet.__validate_network
BaseWallet_validate_network(value) ==
    IF in_literal(value, Network)
    THEN [ok |-> TRUE,
          info |-> ("network" :> value.value) @@ network_map[value.value]]
    ELSE IF has_keys(value, NetworkInfo)
    THEN [ok |-> TRUE, info |-> value.value]
    ELSE [ok |-> FALSE, error |-> "TypeError"]

\* _BaseWallet.__validate_chain_id, given what eth.chain_id answered
BaseWallet_validate_chain_id(network_info, live) ==
    IF "chain_id" \notin DOMAIN network_info
    THEN [ok |-> FALSE, error |-> "KeyError"]
    ELSE IF network_info.chain_id /= None /\ live /= network_info.chain_id
    THEN [ok |-> FALSE, error |-> "ValueError"]
    ELSE [ok |-> TRUE, info |-> [network_info EXCEPT !.chain_id = live]]

\* AsyncWallet.__init__ (Wallet.__init__ is a call of it).  count is the
\* answer of get_transaction_count, None when the call raises; chain_ok
\* is whether eth.chain_id answers.
AsyncWallet_init(c, key, value, count, chain_ok) ==
    LET v == AsyncWallet_validate_network(value) IN
    /\ cls' = c
    /\ epoch' = epoch
    /\ since' = since
    /\ IF ~v.ok
       THEN /\ status' = "error"
            /\ err' = v.error
            /\ rpc_calls' = 0
            /\ UNCHANGED <<private_key, public_key, network, provider, nonce,
                           chain_id, fetched>>
       ELSE /\ network' = v.info
            /\ provider' = Web3Provider("AsyncWeb3", "AsyncHTTPProvider", v.info.rpc)
            /\ private_key' = key
            /\ public_key' = to_checksum_address(AccountAddress(key))
            /\ IF count = None
               THEN /\ status' = "error"
                    /\ err' = "RPCError"
                    /\ rpc_calls' = 1
                    /\ UNCHANGED <<nonce, chain_id, fetched>>
               ELSE /\ nonce' = count
                    /\ fetched' = count
                    /\ rpc_calls' = 2
                    /\ IF chain_ok
                       THEN /\ chain_id' = LiveChainId(v.info.rpc)
                            /\ status' = "ok"
                            /\ err' = NoneStr
                       ELSE /\ chain_id' = chain_id
                            /\ status' = "error"
                            /\ err' = "RPCError"

\* _BaseWallet.__init__
BaseWallet_init(c, key, value, is_async, count, chain_ok) ==
    LET v == BaseWallet_validate_network(value)
        rpc == v.info.rpc
        is_websocket_rpc == startswith(rpc, "wss://")
        transport == IF is_websocket_rpc THEN "WebsocketProvider"
                                         ELSE "HTTPProvider"
        vc == BaseWallet_validate_chain_id(v.info, LiveChainId(rpc))
    IN
    /\ cls' = c
    /\ epoch' = epoch
    /\ since' = since
    /\ chain_id' = chain_id
    /\ IF ~v.ok
       THEN /\ status' = "error"
            /\ err' = v.error
            /\ rpc_calls' = 0
            /\ UNCHANGED <<private_key, public_key, network, provider, nonce,
                           fetched>>
       ELSE /\ provider' = Web3Provider(IF is_async THEN "AsyncWeb3" ELSE "Web3",
                                        transport, rpc)
            /\ IF ~chain_ok \/ ~vc.ok
               THEN /\ status' = "error"
                    /\ err' = IF ~chain_ok THEN "RPCError" ELSE vc.error
                    /\ rpc_calls' = 1
                    /\ UNCHANGED <<private_key, public_key, network, nonce,
                                   fetched>>
               ELSE /\ private_key' = key
                    /\ public_key' = to_checksum_address(AccountAddress(key))
                    /\ rpc_calls' = 2
                    /\ IF count = None
                       THEN /\ status' = "error"
                            /\ err' = "RPCError"
                            /\ UNCHANGED <<network, nonce, fetched>>
                       ELSE /\ nonce' = count
                            /\ fetched' = count
                            /\ network' = vc.info
                            /\ status' = "ok"
                            /\ err' = NoneStr

\* Class(private_key, network)
Construct(c, key, value, is_async, count, chain_ok) ==
    /\ status = "none"
    /\ UNCHANGED <<proc_vars, last>>
    /\ IF c = "_BaseWallet"
       THEN BaseWallet_init(c, key, value, is_async, count, chain_ok)
       ELSE /\ is_async = (c = "AsyncWallet")
            /\ AsyncWallet_init(c, key, value, count, chain_ok)

\* a faulty variant: the setter refetches the nonce and not the chain id
AsyncWallet_set_network_no_chain_id(value, count, chain_ok) ==
    LET v == AsyncWallet_validate_network(value) IN
    /\ UNCHANGED <<cls, status, private_key, public_key, chain_id>>
    /\ IF ~v.ok
       THEN /\ err' = v.error
            /\ rpc_calls' = 0
            /\ UNCHANGED <<network, provider, nonce, fetched, since, epoch>>
       ELSE /\ network' = v.info
            /\ provider' = Web3Provider("AsyncWeb3", "AsyncHTTPProvider", v.info.rpc)
            /\ rpc_calls' = 1
            /\ IF count = None
               THEN /\ err' = "RPCError"
                    /\ UNCHANGED <<nonce, fetched, since, epoch>>
               ELSE /\ nonce' = count
                    /\ fetched' = count
                    /\ since' = 0
                    /\ epoch' = epoch + 1
                    /\ err' = NoneStr

\* AsyncWallet.network (setter)
AsyncWallet_set_network(value, count, chain_ok) ==
    LET v == AsyncWallet_validate_network(value) IN
    /\ UNCHANGED <<cls, status, private_key, public_key>>
    /\ IF ~v.ok
       THEN /\ err' = v.error
            /\ rpc_calls' = 0
            /\ UNCHANGED <<network, provider, nonce, chain_id, fetched,
                           since, epoch>>
       ELSE /\ network' = v.info
            /\ provider' = Web3Provider("AsyncWeb3", "AsyncHTTPProvider", v.info.rpc)
            /\ IF count = None
               THEN /\ err' = "RPCError"
                    /\ rpc_calls' = 1
                    /\ UNCHANGED <<nonce, chain_id, fetched, since, epoch>>
               ELSE /\ nonce' = count
                    /\ fetched' = count
                    /\ since' = 0
                    /\ epoch' = epoch + 1
                    /\ rpc_calls' = 2
                    /\ IF chain_ok
                       THEN /\ chain_id' = LiveChainId(v.info.rpc)
                            /\ err' = NoneStr
                       ELSE /\ chain_id' = chain_id
                            /\ err' = "RPCError"

\* _BaseWallet.network (setter)
BaseWallet_set_network(value, count) ==
    LET v == BaseWallet_validate_network(value) IN
    /\ UNCHANGED <<cls, status, private_key, public_key, chain_id>>
    /\ IF ~v.ok
       THEN /\ err' = v.error
            /\ rpc_calls' = 0
            /\ UNCHANGED <<network, provider, nonce, fetched, since, epoch>>
       ELSE /\ network' = v.info
            /\ provider' = Web3Provider("AsyncWeb3", "AsyncHTTPProvider", v.info.rpc)
            /\ rpc_calls' = 1
            /\ IF count = None
               THEN /\ err' = "RPCError"
                    /\ UNCHANGED <<nonce, fetched, since, epoch>>
               ELSE /\ nonce' = count
                    /\ fetched' = count
                    /\ since' = 0
                    /\ epoch' = epoch + 1
                    /\ err' = NoneStr

\* wallet.network = value
SetNetwork(value, count, chain_ok) ==
    /\ status = "ok"
    /\ epoch < MaxSwitch
    /\ UNCHANGED <<proc_vars, last>>
    /\ IF cls = "_BaseWallet"
       THEN chain_ok /\ BaseWallet_set_network(value, count)
       ELSE AsyncWallet_set_network(value, count, chain_ok)

(***************************************************************************)
(* Building and sending transactions (AsyncWallet; Wallet runs the same    *)
(* coroutines through asyncio.run).                                        *)
(***************************************************************************)
\* the callers (tasks or threads) using the wallet at once
Procs == {1, 2}

\* Wei(250_000), the gas build_transaction_params puts in when given none
DefaultGas == 250000

\* what the endpoint answers to eth.gas_price
NetGasPrice == 7

\* what the endpoint answers to eth.estimate_gas
NetGasEstimate == 52000

NoTx == [params |-> [none |-> TRUE], read_at |-> 0, read_epoch |-> 0]

\* a contract function called with its arguments, not yet built
Closure(to, fn, args) == [to |-> to, data |-> [fn |-> fn, args |-> args]]

NoClosure == [to |-> NoneStr]

NoLoc == [gas |-> None, recipient |-> NoneStr, raw_data |-> NoneStr,
          rpc |-> NoneStr, closure |-> NoClosure]

Ret(s, v) == [status |-> s, value |-> v]

\* ContractFunction.build_transaction(tx_params): the params with the
\* contract's address and the encoded call
closure_build_transaction(closure, tx_params) ==
    ("to" :> closure.to) @@ ("data" :> closure.data) @@ tx_params

\* the dict literal of build_transaction_params up to the gasPrice entry:
\* every wallet field is read here, before eth.gas_price is awaited
tx_params_head(value, gas) ==
    [from    |-> public_key,
     chainId |-> chain_id,
     nonce   |-> nonce,
     value   |-> value,
     gas     |-> IF Truthy(gas) THEN gas ELSE DefaultGas]

\* the rest of build_transaction_params, once the gas price is known
tx_params_tail(head, price, recipient, raw_data) ==
    LET a == ("gasPrice" :> price) @@ head
        b == IF TruthyStr(recipient)
             THEN ("to" :> to_checksum_address(recipient)) @@ a ELSE a
    IN  IF TruthyStr(raw_data) THEN ("data" :> raw_data) @@ b ELSE b

Built(params) == [params |-> params, read_at |-> Len(sent), read_epoch |-> epoch]

IsWallet == status = "ok" /\ cls \in {"AsyncWallet", "Wallet"}

\* a faulty variant: building reserves the nonce it has put in the parameters
build_transaction_params_reserving(p, value, recipient, raw_data, gas, gas_price) ==
    /\ IsWallet
    /\ pc[p] = "idle"
    /\ UNCHANGED <<cls, status, err, private_key, public_key, network,
                   provider, chain_id, rpc_calls, fetched, since, epoch,
                   sent, last>>
    /\ nonce' = nonce + 1
    /\ IF Truthy(gas_price)
       THEN /\ held' = [held EXCEPT ![p] =
                   Built(tx_params_tail(tx_params_head(value, gas), gas_price,
                                        recipient, raw_data))]
            /\ ret' = [ret EXCEPT ![p] = Ret("ok", "tx_params")]
            /\ UNCHANGED <<pc, tx, loc>>
       ELSE /\ pc' = [pc EXCEPT ![p] = "btp_gas_price"]
            /\ tx' = [tx EXCEPT ![p] = Built(tx_params_head(value, gas))]
            /\ loc' = [loc EXCEPT ![p] = [NoLoc EXCEPT !.recipient = recipient,
                                                       !.raw_data = raw_data]]
            /\ ret' = [ret EXCEPT ![p] = Ret("pending", "build_transaction_params")]
            /\ UNCHANGED held

\* AsyncWallet.build_transaction_params, up to its first await or its return
build_transaction_params(p, value, recipient, raw_data, gas, gas_price) ==
    /\ IsWallet
    /\ pc[p] = "idle"
    /\ UNCHANGED <<wallet_vars, sent, last>>
    /\ IF Truthy(gas_price)
       THEN /\ held' = [held EXCEPT ![p] =
                   Built(tx_params_tail(tx_params_head(value, gas), gas_price,
                                        recipient, raw_data))]
            /\ ret' = [ret EXCEPT ![p] = Ret("ok", "tx_params")]
            /\ UNCHANGED <<pc, tx, loc>>
       ELSE /\ pc' = [pc EXCEPT ![p] = "btp_gas_price"]
            /\ tx' = [tx EXCEPT ![p] = Built(tx_params_head(value, gas))]
            /\ loc' = [loc EXCEPT ![p] = [NoLoc EXCEPT !.recipient = recipient,
                                                       !.raw_data = raw_data]]
            /\ ret' = [ret EXCEPT ![p] = Ret("pending", "build_transaction_params")]
            /\ UNCHANGED held

\* build_transaction_params resumed: eth.gas_price answered or raised
btp_gas_price(p, price) ==
    /\ pc[p] = "btp_gas_price"
    /\ UNCHANGED <<wallet_vars, sent, last>>
    /\ pc' = [pc EXCEPT ![p] = "idle"]
    /\ tx' = [tx EXCEPT ![p] = NoTx]
    /\ loc' = [loc EXCEPT ![p] = NoLoc]
    /\ IF price = None
       THEN /\ ret' = [ret EXCEPT ![p] = Ret("error", "GasPriceError")]
            /\ UNCHANGED held
       ELSE /\ held' = [held EXCEPT ![p] =
                   [tx[p] EXCEPT !.params =
                       tx_params_tail(tx[p].params, price, loc[p].recipient,
                                      loc[p].raw_data)]]
            /\ ret' = [ret EXCEPT ![p] = Ret("ok", "tx_params")]

\* a faulty variant: the nonce is read again when the transaction is signed
sign_transaction_fresh_nonce(tx_params, key) ==
    [tx |-> [tx_params EXCEPT !.nonce = nonce], signer |-> key]

\* eth.account.sign_transaction(tx_params, private_key).rawTransaction:
\* the fields of tx_params as given, under the key's signature
sign_transaction(tx_params, key) == [tx |-> tx_params, signer |-> key]

\* a faulty variant: the nonce is incremented twice
transact_nonce_twice(n, ok) == IF ok THEN n + 2 ELSE n

\* a faulty variant: the nonce is incremented before the send is awaited
transact_nonce_always(n, ok) == n + 1

\* self.__nonce after transact: the increment follows the awaited send,
\* which skips it by raising
transact_nonce(n, ok) == IF ok THEN n + 1 ELSE n

\* AsyncWallet.transact up to its await: sign, hand the raw transaction to
\* the provider read at entry
transact_begin(p, built, sign_ok) ==
    IF sign_ok
    THEN /\ pc' = [pc EXCEPT ![p] = "send"]
         /\ tx' = [tx EXCEPT ![p] =
                [built EXCEPT !.params = sign_transaction(built.params, private_key)]]
         /\ loc' = [loc EXCEPT ![p] = [NoLoc EXCEPT !.rpc = provider.rpc]]
         /\ ret' = [ret EXCEPT ![p] = Ret("pending", "transact")]
    ELSE /\ pc' = [pc EXCEPT ![p] = "idle"]
         /\ tx' = [tx EXCEPT ![p] = NoTx]
         /\ loc' = [loc EXCEPT ![p] = NoLoc]
         /\ ret' = [ret EXCEPT ![p] = Ret("error", "SignError")]

\* AsyncWallet.transact(tx_params), called with params the caller holds
transact(p, sign_ok) ==
    /\ IsWallet
    /\ pc[p] = "idle"
    /\ held[p] /= NoTx
    /\ UNCHANGED <<wallet_vars, held, sent, last>>
    /\ transact_begin(p, held[p], sign_ok)

\* AsyncWallet.transact resumed: send_raw_transaction answered or raised
send_raw_transaction(p, ok) ==
    /\ pc[p] = "send"
    /\ UNCHANGED <<cls, status, err, private_key, public_key, network,
                   provider, chain_id, rpc_calls, fetched, epoch, held, last>>
    /\ pc' = [pc EXCEPT ![p] = "idle"]
    /\ tx' = [tx EXCEPT ![p] = NoTx]
    /\ loc' = [loc EXCEPT ![p] = NoLoc]
    /\ nonce' = transact_nonce(nonce, ok)
    /\ IF ok
       THEN /\ Len(sent) < MaxSent
            /\ sent' = Append(sent, [raw        |-> tx[p].params,
                                     read_at    |-> tx[p].read_at,
                                     read_epoch |-> tx[p].read_epoch,
                                     rpc        |-> loc[p].rpc])
            /\ since' = since + 1
            /\ ret' = [ret EXCEPT ![p] = Ret("ok", "tx_hash")]
       ELSE /\ ret' = [ret EXCEPT ![p] = Ret("error", "SendError")]
            /\ UNCHANGED <<sent, since>>

\* build_and_transact once tx_params are built: await closure.build_transaction
bat_await_closure(p, built, closure, gas) ==
    /\ pc' = [pc EXCEPT ![p] = "bat_closure"]
    /\ tx' = [tx EXCEPT ![p] = built]
    /\ loc' = [loc EXCEPT ![p] = [NoLoc EXCEPT !.gas = gas, !.closure = closure]]

\* AsyncWallet.build_and_transact, up to its first await
build_and_transact(p, closure, value, gas, gas_price) ==
    /\ IsWallet
    /\ pc[p] = "idle"
    /\ UNCHANGED <<wallet_vars, held, sent, last>>
    /\ ret' = [ret EXCEPT ![p] = Ret("pending", "build_and_transact")]
    /\ IF Truthy(gas_price)
       THEN bat_await_closure(p,
                Built(tx_params_tail(tx_params_head(value, gas), gas_price,
                                     NoneStr, NoneStr)), closure, gas)
       ELSE /\ pc' = [pc EXCEPT ![p] = "bat_gas_price"]
            /\ tx' = [tx EXCEPT ![p] = Built(tx_params_head(value, gas))]
            /\ loc' = [loc EXCEPT ![p] = [NoLoc EXCEPT !.gas = gas,
                                                       !.closure = closure]]

\* AsyncWallet.approve: build_and_transact on the token's approve, with
\* build_and_transact's defaults for value, gas and gas_price
approve(p, token, contract_address, token_amount) ==
    build_and_transact(p,
        Closure(to_checksum_address(token), "approve",
                <<to_checksum_address(contract_address), token_amount>>),
        0, None, None)

\* build_and_transact resumed in build_transaction_params: eth.gas_price
bat_gas_price(p, price) ==
    /\ pc[p] = "bat_gas_price"
    /\ UNCHANGED <<wallet_vars, held, sent, last>>
    /\ IF price = None
       THEN /\ pc' = [pc EXCEPT ![p] = "idle"]
            /\ tx' = [tx EXCEPT ![p] = NoTx]
            /\ loc' = [loc EXCEPT ![p] = NoLoc]
            /\ ret' = [ret EXCEPT ![p] = Ret("error", "GasPriceError")]
       ELSE /\ bat_await_closure(p,
                [tx[p] EXCEPT !.params =
                    tx_params_tail(tx[p].params, price, NoneStr, NoneStr)],
                loc[p].closure, loc[p].gas)
            /\ UNCHANGED ret

\* build_and_transact resumed: closure.build_transaction answered or raised
bat_closure(p, ok, sign_ok) ==
    /\ pc[p] = "bat_closure"
    /\ UNCHANGED <<wallet_vars, held, sent, last>>
    /\ IF ~ok
       THEN /\ pc' = [pc EXCEPT ![p] = "idle"]
            /\ tx' = [tx EXCEPT ![p] = NoTx]
            /\ loc' = [loc EXCEPT ![p] = NoLoc]
            /\ ret' = [ret EXCEPT ![p] = Ret("error", "BuildError")]
       ELSE LET built == [tx[p] EXCEPT !.params =
                             closure_build_transaction(loc[p].closure, tx[p].params)]
            IN  IF ~Truthy(loc[p].gas)
                THEN /\ pc' = [pc EXCEPT ![p] = "bat_estimate"]
                     /\ tx' = [tx EXCEPT ![p] = [built EXCEPT !.params =
                                  [k \in DOMAIN built.params \ {"gas"} |->
                                      built.params[k]]]]
                     /\ UNCHANGED <<loc, ret>>
                ELSE transact_begin(p, built, sign_ok)

\* build_and_transact resumed: estimate_gas answered or raised
bat_estimate(p, estimate, sign_ok) ==
    /\ pc[p] = "bat_estimate"
    /\ UNCHANGED <<wallet_vars, held, sent, last>>
    /\ IF estimate = None
       THEN /\ pc' = [pc EXCEPT ![p] = "idle"]
            /\ tx' = [tx EXCEPT ![p] = NoTx]
            /\ loc' = [loc EXCEPT ![p] = NoLoc]
            /\ ret' = [ret EXCEPT ![p] = Ret("error", "EstimateGasError")]
       ELSE transact_begin(p,
                [tx[p] EXCEPT !.params = ("gas" :> estimate) @@ tx[p].params],
                sign_ok)

NoCall == [op |-> "none"]

Init ==
    /\ WalletInit
    /\ pc = [p \in Procs |-> "idle"]
    /\ tx = [p \in Procs |-> NoTx]
    /\ held = [p \in Procs |-> NoTx]
    /\ loc = [p \in Procs |-> NoLoc]
    /\ ret = [p \in Procs |-> Ret("none", NoneStr)]
    /\ sent = <<>>
    /\ last = NoCall

\* the arguments callers pass
Values == {0}

Recipients == {"0xdac1"}

RawDatas == {NoneStr}

\* (gas, gas_price) as callers pass them: both left out, both given
GasArgs == {<<None, None>>, <<21000, 5>>}

Closures == {Closure("0xdAC1", "swap", <<1>>)}

Tokens == {"0xdac1"}

Spenders == {"0x7a25"}

Amounts == {1}

\* the networks the callers of Spec construct on
FlowNetworkInputs == {PyStr("Ethereum")}

FlowClasses == {"AsyncWallet"}

\* a build_and_transact or transact call of a caller resumed at its await
Resume(p) ==
    \/ \E ok \in BOOLEAN : send_raw_transaction(p, ok)
    \/ \E price \in {NetGasPrice, None} : bat_gas_price(p, price)
    \/ \E ok \in BOOLEAN, sign_ok \in BOOLEAN : bat_closure(p, ok, sign_ok)
    \/ \E estimate \in {NetGasEstimate, None}, sign_ok \in BOOLEAN :
          bat_estimate(p, estimate, sign_ok)

\* Spec: two callers building and sending transactions at once on one network
Next ==
    \/ \E c \in FlowClasses, key \in PrivateKeys, value \in FlowNetworkInputs,
          count \in {MaxCount} :
          Construct(c, key, value, c = "AsyncWallet", count, TRUE)
    \/ \E p \in Procs, value \in Values, recipient \in Recipients,
          raw_data \in RawDatas, g \in GasArgs :
          build_transaction_params(p, value, recipient, raw_data, g[1], g[2])
    \/ \E p \in Procs, sign_ok \in BOOLEAN : transact(p, sign_ok)
    \/ \E p \in Procs, closure \in Closures, value \in Values, g \in GasArgs :
          held[p] = NoTx /\ build_and_transact(p, closure, value, g[1], g[2])
    \/ \E p \in Procs, price \in {NetGasPrice, None} : btp_gas_price(p, price)
    \/ \E p \in Procs : Resume(p)

Spec == Init /\ [][Next]_vars

\* SpecNetwork: every class, every network value, every answer of the
\* endpoint, network switches, and one caller building and sending
NetworkNext ==
    \/ \E c \in Classes, key \in PrivateKeys, value \in NetworkInputs,
          is_async \in BOOLEAN, count \in TxCounts \cup {None},
          chain_ok \in BOOLEAN :
          Construct(c, key, value, is_async, count, chain_ok)
    \/ \E value \in SwitchNetworkInputs, count \in TxCounts \cup {None},
          chain_ok \in BOOLEAN :
          SetNetwork(value, count, chain_ok)
    \/ \E token \in Tokens, spender \in Spenders, amount \in Amounts :
          cls \in FlowClasses /\ approve(1, token, spender, amount)
    \/ Resume(1)

SpecNetwork == Init /\ [][NetworkNext]_vars

(***************************************************************************)
(* The read-only calls.  Each is one action: it records its arguments,     *)
(* what the endpoint answered, the calls made to the endpoint and the      *)
(* result in last, and leaves everything else alone.                       *)
(***************************************************************************)
\* a number Python computes, m * 10^e, in lowest terms of ten
RECURSIVE Num(_, _)
Num(m, e) ==
    IF m = 0 THEN [m |-> 0, e |-> 0]
    ELSE IF e < 0 /\ m % 10 = 0 THEN Num(m \div 10, e + 1)
    ELSE [m |-> m, e |-> e]

PyInt(n) == Num(n, 0)

\* the decimal places of 'ether' in Web3.from_wei
EtherDecimals == 18

\* Web3.from_wei(number, 'ether')
from_wei(number) == Num(number, 0 - EtherDecimals)

PyBytes(hex) == [type |-> "HexBytes", value |-> hex]

\* a == b of Python: a str and a bytes are never equal
PyEq(a, b) == a.type = b.type /\ a.value = b.value

\* x.upper() and x.lower(): of a str a str, of a bytes a bytes
PyUpper(x) == IF x.type = "str" THEN PyStr(upper(x.value)) ELSE x

PyLower(x) == IF x.type = "str" THEN PyStr(lower(x.value)) ELSE x

\* AsyncWallet.is_native_token: token.hex() is computed and dropped
AsyncWallet_is_native_token(token) ==
    LET native_token == PyStr(network.token) IN
    \/ PyEq(PyUpper(token), native_token)
    \/ PyEq(PyLower(token), native_token)
    \/ PyEq(token, PyStr(ZERO_ADDRESS))

\* _BaseWallet.is_native_token: the same lines
BaseWallet_is_native_token(token) ==
    LET native_token == PyStr(network.token) IN
    \/ PyEq(PyUpper(token), native_token)
    \/ PyEq(PyLower(token), native_token)
    \/ PyEq(token, PyStr(ZERO_ADDRESS))

Out(result, calls) == [result |-> result, calls |-> calls]

\* AsyncWallet.get_balance
AsyncWallet_get_balance(to_wei, balance) ==
    Out(IF to_wei THEN PyInt(balance) ELSE from_wei(balance),
        <<"eth_getBalance">>)

\* Wallet.get_balance: asyncio.run(async_method())
Wallet_get_balance(to_wei, balance) == AsyncWallet_get_balance(FALSE, balance)

\* AsyncWallet.estimate_gas
AsyncWallet_estimate_gas(tx_params, estimate) ==
    Out(PyInt(estimate), <<"eth_estimateGas">>)

\* Wallet.estimate_gas: asyncio.run(async_method(tx_params))
Wallet_estimate_gas(tx_params, estimate) ==
    AsyncWallet_estimate_gas(tx_params, estimate)

\* AsyncWallet.get_decimals
AsyncWallet_get_decimals(token, decimals) ==
    Out(PyInt(decimals), <<"decimals">>)

\* Wallet.get_decimals: asyncio.run(async_method(token))
Wallet_get_decimals(token, decimals) == AsyncWallet_get_decimals(token, decimals)

\* AsyncWallet.get_balance_of
AsyncWallet_get_balance_of(token, convert, balance, decimals) ==
    IF convert
    THEN Out(Num(balance, 0 - decimals), <<"balanceOf", "decimals">>)
    ELSE Out(PyInt(balance), <<"balanceOf">>)

\* Wallet.get_balance_of: asyncio.run(async_method(token))
Wallet_get_balance_of(token, convert, balance, decimals) ==
    AsyncWallet_get_balance_of(token, TRUE, balance, decimals)

Call(op, args, answers, out) ==
    [op |-> op, cls |-> cls, args |-> args, answers |-> answers,
     result |-> out.result, calls |-> out.calls]

\* wallet.is_native_token(token)
is_native_token(token) ==
    /\ status = "ok"
    /\ UNCHANGED <<wallet_vars, proc_vars>>
    /\ last' = Call("is_native_token", [token |-> token], [none |-> TRUE],
                    Out(IF cls = "_BaseWallet"
                        THEN BaseWallet_is_native_token(token)
                        ELSE AsyncWallet_is_native_token(token), <<>>))

\* wallet.get_balance(to_wei)
get_balance(to_wei, balance) ==
    /\ IsWallet
    /\ UNCHANGED <<wallet_vars, proc_vars>>
    /\ last' = Call("get_balance", [to_wei |-> to_wei], [balance |-> balance],
                    IF cls = "Wallet" THEN Wallet_get_balance(to_wei, balance)
                    ELSE AsyncWallet_get_balance(to_wei, balance))

\* wallet.estimate_gas(tx_params)
estimate_gas(tx_params, estimate) ==
    /\ IsWallet
    /\ UNCHANGED <<wallet_vars, proc_vars>>
    /\ last' = Call("estimate_gas", [tx_params |-> tx_params],
                    [estimate |-> estimate],
                    IF cls = "Wallet" THEN Wallet_estimate_gas(tx_params, estimate)
                    ELSE AsyncWallet_estimate_gas(tx_params, estimate))

\* wallet.get_decimals(token)
get_decimals(token, decimals) ==
    /\ IsWallet
    /\ UNCHANGED <<wallet_vars, proc_vars>>
    /\ last' = Call("get_decimals", [token |-> token], [decimals |-> decimals],
                    IF cls = "Wallet" THEN Wallet_get_decimals(token, decimals)
                    ELSE AsyncWallet_get_decimals(token, decimals))

\* wallet.get_balance_of(token, convert)
get_balance_of(token, convert, balance, decimals) ==
    /\ IsWallet
    /\ UNCHANGED <<wallet_vars, proc_vars>>
    /\ last' = Call("get_balance_of", [token |-> token, convert |-> convert],
                    [balance |-> balance, decimals |-> decimals],
                    IF cls = "Wallet"
                    THEN Wallet_get_balance_of(token, convert, balance, decimals)
                    ELSE AsyncWallet_get_balance_of(token, convert, balance,
                                                    decimals))

\* a value handed in as a transaction hash: its type and, for the types
\* that hold bytes, the hex digits of the bytes
PyHash(type, digits) == [type |-> type, value |-> digits]

\* tx_hash.hex(): HexBytes.hex() of web3 6 puts 0x before the digits,
\* bytes.hex() does not
hex(h) == IF h.type = "HexBytes" THEN "0x" \o h.value ELSE h.value

Returned(v) == [ok |-> TRUE, value |-> v]

Raised(e) == [ok |-> FALSE, error |-> e]

\* AsyncWallet.get_explorer_url (Wallet inherits it)
AsyncWallet_get_explorer_url(transaction_hash) ==
    IF transaction_hash.type = "HexBytes"
    THEN Returned(network.explorer \o "/tx/" \o hex(transaction_hash))
    ELSE Raised("TypeError")

\* _BaseWallet.get_explorer_url: a HexBytes is a bytes
BaseWallet_get_explorer_url(tx_hash) ==
    IF tx_hash.type \in {"HexBytes", "bytes"}
    THEN Returned(network.explorer \o "/tx/" \o hex(tx_hash))
    ELSE IF tx_hash.type /= "str"
    THEN Raised("TypeError")
    ELSE Returned(network.explorer \o "/tx/" \o tx_hash.value)

\* wallet.get_explorer_url(tx_hash)
get_explorer_url(tx_hash) ==
    /\ status = "ok"
    /\ UNCHANGED <<wallet_vars, proc_vars>>
    /\ last' = Call("get_explorer_url", [tx_hash |-> tx_hash], [none |-> TRUE],
                    Out(IF cls = "_BaseWallet"
                        THEN BaseWallet_get_explorer_url(tx_hash)
                        ELSE AsyncWallet_get_explorer_url(tx_hash), <<>>))

\* the values callers pass as a transaction hash: what transact returned,
\* the same bytes as plain bytes, as a hex string, and as an int
HashInputs ==
    {PyHash("HexBytes", "5c50"), PyHash("bytes", "5c50"), PyStr("0x5c50"),
     PyHash("int", "23632")}

\* the values callers pass as a token to is_native_token
NativeTokenInputs ==
    {PyStr(t) : t \in {"ETH", "eth", "Eth", "BNB", "bnb", "tBNB", "TBNB",
                       "tbnb", "USDT", ZERO_ADDRESS}}
    \cup {PyBytes(ZERO_ADDRESS), PyBytes("0xdac1")}

Balances == 0..MaxBalance

Decimals == 0..MaxDecimals

\* the networks the callers of SpecQuery construct on
QueryNetworkInputs ==
    {PyStr("Ethereum"), PyStr("opBNB"), PyDict(CustomInfo(None))}

\* SpecQuery: every class on a few networks, and the read-only calls
QueryNext ==
    \/ \E c \in Classes, key \in PrivateKeys, value \in QueryNetworkInputs,
          is_async \in BOOLEAN, count \in TxCounts :
          Construct(c, key, value, is_async, count, TRUE)
    \/ \E token \in NativeTokenInputs : is_native_token(token)
    \/ \E tx_hash \in HashInputs : get_explorer_url(tx_hash)
    \/ \E to_wei \in BOOLEAN, balance \in Balances : get_balance(to_wei, balance)
    \/ \E estimate \in {NetGasEstimate} :
          estimate_gas(tx_params_tail(tx_params_head(0, None), NetGasPrice,
                                      "0xdac1", NoneStr), estimate)
    \/ \E token \in Tokens, decimals \in Decimals : get_decimals(token, decimals)
    \/ \E token \in Tokens, convert \in BOOLEAN, balance \in Balances,
          decimals \in Decimals :
          get_balance_of(token, convert, balance, decimals)

SpecQuery == Init /\ [][QueryNext]_vars

\* a transaction of a block as eth.get_block(n, True) gives it; to is
\* None for a contract creation
TxData(from, to) == [from |-> from, to |-> to]

\* the transactions on the chains: sent by the wallet, received by it
\* (the node spelling the address in lower case), between others, and
\* contract creations by the wallet and by others
ChainTxs ==
    {TxData("0xAb58", "0xdAC1"), TxData("0x7a25", "0xab58"),
     TxData("0x7a25", "0xdAC1"), TxData("0xAb58", NoneStr),
     TxData("0x7a25", NoneStr)}

SeqsUpTo(S, n) == UNION {[1..k -> S] : k \in 0..n}

Blocks == SeqsUpTo(ChainTxs, MaxBlockTxs)

\* a chain: block 0 first; block_number is its length less one
Chains == SeqsUpTo(Blocks, MaxChainBlocks) \ {<<>>}

\* the inner loop of get_transactions from the i-th transaction of the
\* block down: the list of both addresses in lower case is built before
\* the test, and None has no lower()
RECURSIVE scan_block(_, _, _)
scan_block(transactions, i, found) ==
    IF i = 0 THEN Returned(found)
    ELSE LET t == transactions[i] IN
         IF t.to = NoneStr THEN Raised("AttributeError")
         ELSE scan_block(transactions, i - 1,
                  IF LowerOf[public_key] \in {LowerOf[t.from], LowerOf[t.to]}
                  THEN Append(found, t) ELSE found)

\* the outer loop from block number `block` down to 0; visited lists the
\* block numbers asked of the endpoint
RECURSIVE scan_chain(_, _, _, _)
scan_chain(chain, block, found, visited) ==
    IF block < 0 THEN Out(Returned(found), visited)
    ELSE LET block_info == chain[block + 1]
             r == scan_block(block_info, Len(block_info), found)
         IN  IF r.ok
             THEN scan_chain(chain, block - 1, r.value, Append(visited, block))
             ELSE Out(r, Append(visited, block))

\* AsyncWallet.get_transactions on a chain (Wallet inherits it)
AsyncWallet_get_transactions(chain) ==
    scan_chain(chain, Len(chain) - 1, <<>>, <<>>)

\* wallet.get_transactions()
get_transactions(chain) ==
    /\ IsWallet
    /\ UNCHANGED <<wallet_vars, proc_vars>>
    /\ last' = Call("get_transactions", [none |-> TRUE], [chain |-> chain],
                    AsyncWallet_get_transactions(chain))

\* SpecHistory: wallets scanning every chain of the bounded size
HistoryNext ==
    \/ \E c \in {"AsyncWallet", "Wallet"}, key \in PrivateKeys,
          value \in FlowNetworkInputs, count \in {MaxCount} :
          Construct(c, key, value, c = "AsyncWallet", count, TRUE)
    \/ \E chain \in Chains : get_transactions(chain)

SpecHistory == Init /\ [][HistoryNext]_vars

\* a chain with a transaction of the wallet and one of others
FrameChains ==
    {<< <<TxData("0x7a25", "0xdAC1")>>, <<TxData("0xAb58", "0xdAC1")>> >>}

\* SpecFrame: one caller using every operation of the wallet, one call after
\* the other: construction, network switches, the read-only calls, building
\* and sending
FrameNext ==
    \/ \E c \in {"AsyncWallet", "Wallet"}, key \in PrivateKeys,
          value \in FlowNetworkInputs, count \in {MaxCount} :
          Construct(c, key, value, c = "AsyncWallet", count, TRUE)
    \/ \E value \in {PyStr("Ethereum"), PyDict(CustomInfo(1))},
          count \in {MaxCount}, chain_ok \in BOOLEAN :
          pc[1] = "idle" /\ SetNetwork(value, count, chain_ok)
    \/ \E token \in {PyStr("ETH")} :
          pc[1] = "idle" /\ is_native_token(token)
    \/ \E tx_hash \in {PyHash("HexBytes", "5c50")} :
          pc[1] = "idle" /\ get_explorer_url(tx_hash)
    \/ \E chain \in FrameChains :
          pc[1] = "idle" /\ get_transactions(chain)
    \/ \E balance \in {MaxBalance} :
          pc[1] = "idle" /\ get_balance(FALSE, balance)
    \/ \E estimate \in {NetGasEstimate} :
          pc[1] = "idle" /\
          estimate_gas(tx_params_tail(tx_params_head(0, None), NetGasPrice,
                                      "0xdac1", NoneStr), estimate)
    \/ \E token \in Tokens, decimals \in {MaxDecimals} :
          pc[1] = "idle" /\ get_decimals(token, decimals)
    \/ \E token \in Tokens, balance \in {MaxBalance},
          decimals \in {MaxDecimals} :
          pc[1] = "idle" /\ get_balance_of(token, TRUE, balance, decimals)
    \/ \E value \in Values, recipient \in Recipients, raw_data \in RawDatas :
          build_transaction_params(1, value, recipient, raw_data, None, None)
    \/ \E price \in {NetGasPrice} : btp_gas_price(1, price)
    \/ \E sign_ok \in {TRUE} : transact(1, sign_ok)
    \/ \E ok \in BOOLEAN : send_raw_transaction(1, ok)

SpecFrame == Init /\ [][FrameNext]_vars

\* await of a ContractFunction: the object is no awaitable, and Python
\* raises TypeError at the await
await_contract_function(closure) == Raised("TypeError")

\* AsyncWallet.transfer: awaits token_contract.functions.transfer(...)
\* itself, and calls build_and_transact with what the await gives
transfer(p, token, recipient, token_amount, gas, gas_price) ==
    LET closure == await_contract_function(
                       Closure(to_checksum_address(token), "transfer",
                               <<to_checksum_address(recipient), token_amount>>))
    IN  IF closure.ok
        THEN build_and_transact(p, closure.value, 0, gas, gas_price)
        ELSE /\ IsWallet
             /\ pc[p] = "idle"
             /\ UNCHANGED <<wallet_vars, pc, tx, held, loc, sent, last>>
             /\ ret' = [ret EXCEPT ![p] = Ret("error", closure.error)]

\* SpecSubmit: one caller sending through build_and_transact, approve and
\* transfer, every answer of the endpoint
SubmitNext ==
    \/ \E c \in FlowClasses, key \in PrivateKeys, value \in FlowNetworkInputs,
          count \in TxCounts :
          Construct(c, key, value, c = "AsyncWallet", count, TRUE)
    \/ \E closure \in Closures, value \in {0, 1}, g \in GasArgs :
          build_and_transact(1, closure, value, g[1], g[2])
    \/ \E token \in Tokens, spender \in Spenders, amount \in Amounts :
          approve(1, token, spender, amount)
    \/ \E token \in Tokens, recipient \in Recipients, amount \in Amounts,
          g \in GasArgs :
          transfer(1, token, recipient, amount, g[1], g[2])
    \/ Resume(1)

SpecSubmit == Init /\ [][SubmitNext]_vars

\* the arguments callers pass to build_transaction_params: each optional
\* one left out, given as zero or empty, and given
BuildValues == {0, 1}

BuildRecipients == {NoneStr, "0xdac1"}

BuildRawDatas == {NoneStr, "", "0xa9059cbb"}

BuildGas == {None, 0, 21000}

BuildGasPrices == {None, 0, 5}

\* SpecBuild: one caller building transaction params with every
\* combination of arguments
BuildNext ==
    \/ \E c \in {"AsyncWallet", "Wallet"}, key \in PrivateKeys,
          value \in FlowNetworkInputs, count \in TxCounts :
          Construct(c, key, value, c = "AsyncWallet", count, TRUE)
    \/ \E value \in BuildValues, recipient \in BuildRecipients,
          raw_data \in BuildRawDatas, gas \in BuildGas,
          gas_price \in BuildGasPrices :
          build_transaction_params(1, value, recipient, raw_data, gas, gas_price)
    \/ \E price \in {NetGasPrice, None} : btp_gas_price(1, price)

SpecBuild == Init /\ [][BuildNext]_vars

\* every recognized name, as a caller passes it
TableNetworkInputs == {PyStr(n) : n \in Network}

\* SpecTable: every class constructed on every name of the table, the
\* endpoints answering
TableNext ==
    \E c \in Classes, key \in PrivateKeys, value \in TableNetworkInputs,
       is_async \in BOOLEAN, count \in TxCounts :
       Construct(c, key, value, is_async, count, TRUE)

SpecTable == Init /\ [][TableNext]_vars

(***************************************************************************)
(* The properties.                                                         *)
(***************************************************************************)
\* the nonce the i-th accepted transaction carries
SentNonce(i) == sent[i].raw.tx.nonce

\* C1: every successful submission adds exactly one to the local nonce:
\* after n of them the nonce is the count fetched at construction or at
\* the last network switch, plus n.
C1_NonceCountsSubmissions ==
    status = "ok" => nonce = fetched + since

C1_Witness ==
    /\ status = "ok"
    /\ since = 2
    /\ Len(sent) = 2
    /\ nonce = fetched + 2

\* C2: a call that ends in an error (gas price, build, estimate, sign or
\* send failing) returns at once and leaves the nonce, the network, the
\* chain id and the transactions sent as they were.
C2_FailureLeavesWallet ==
    [][\A p \in Procs :
          (ret'[p].status = "error" /\ ret'[p] /= ret[p]) =>
              /\ pc'[p] = "idle"
              /\ nonce' = nonce
              /\ network' = network
              /\ chain_id' = chain_id
              /\ sent' = sent]_vars

C2_Witness ==
    \E p \in Procs :
        /\ ret[p] = Ret("error", "SendError")
        /\ pc[p] = "idle"
        /\ Len(sent) = 1
        /\ nonce = fetched + 1

\* the class's own error for a value that is no network
InvalidNetworkError(c) ==
    IF c = "_BaseWallet" THEN "TypeError" ELSE "InvalidNetworkInfo"

\* C3: constructing with a network that is neither a recognized name nor
\* a complete network info raises the invalid-network error, with no
\* provider created and no RPC call made.
C3_InvalidNetworkRaisesFirst ==
    [][\A c \in Classes, key \in PrivateKeys, value \in InvalidNetworkInputs,
          is_async \in BOOLEAN, count \in TxCounts \cup {None},
          chain_ok \in BOOLEAN :
          (status = "none"
           /\ Construct(c, key, value, is_async, count, chain_ok)) =>
              /\ status' = "error"
              /\ err' = InvalidNetworkError(c)
              /\ provider' = NoProvider
              /\ rpc_calls' = 0
              /\ nonce' = None
              /\ chain_id' = None]_vars

C3_Witness ==
    /\ status = "error"
    /\ cls \in {"AsyncWallet", "Wallet"}
    /\ err = "InvalidNetworkInfo"
    /\ provider = NoProvider
    /\ rpc_calls = 0

\* complete network infos whose chain id is given and is not the endpoint's
MismatchedInputs ==
    {v \in ValidNetworkInputs :
        /\ v.type = "dict"
        /\ v.value.chain_id /= None
        /\ v.value.chain_id /= LiveChainId(v.value.rpc)}

\* C4: constructing with a network info whose chain id differs from the
\* one the endpoint reports fails, for every class.
C4_MismatchRejected ==
    [][\A c \in Classes, key \in PrivateKeys, value \in MismatchedInputs,
          is_async \in BOOLEAN, count \in TxCounts \cup {None},
          chain_ok \in BOOLEAN :
          Construct(c, key, value, is_async, count, chain_ok) =>
              status' = "error"]_vars

\* the answer the specification gives for is_native_token
IsNativeOrZero(token, native) ==
    \/ token.type = "str" /\ lower(token.value) = lower(native)
    \/ token.value = ZERO_ADDRESS

\* C5: is_native_token is true exactly for the native symbol in any case
\* and for the zero address.
C5_NativeIffSymbolOrZero ==
    last.op = "is_native_token" =>
        last.result = IsNativeOrZero(last.args.token, network.token)

\* C6: get_balance_of of either class divides by 10^decimals when convert
\* is true, and returns the raw balance, asking for no decimals, when it
\* is false.
C6_ConvertOnlyOnRequest ==
    last.op = "get_balance_of" =>
        IF last.args.convert
        THEN last.result = Num(last.answers.balance, 0 - last.answers.decimals)
        ELSE /\ last.result = PyInt(last.answers.balance)
             /\ last.calls = <<"balanceOf">>

\* what the AsyncWallet method answers for the arguments and endpoint
\* answers of a recorded call
AsyncAnswer(call) ==
    CASE call.op = "get_balance" ->
           AsyncWallet_get_balance(call.args.to_wei, call.answers.balance)
      [] call.op = "estimate_gas" ->
           AsyncWallet_estimate_gas(call.args.tx_params, call.answers.estimate)
      [] call.op = "get_decimals" ->
           AsyncWallet_get_decimals(call.args.token, call.answers.decimals)
      [] call.op = "get_balance_of" ->
           AsyncWallet_get_balance_of(call.args.token, call.args.convert,
                                      call.answers.balance, call.answers.decimals)

\* C7: a synchronous Wallet method returns what the AsyncWallet method of
\* the same name returns for the same arguments.
C7_SyncEqualsAsync ==
    (last.op \in {"get_balance", "estimate_gas", "get_decimals", "get_balance_of"}
     /\ last.cls = "Wallet") =>
        /\ last.result = AsyncAnswer(last).result
        /\ last.calls = AsyncAnswer(last).calls

\* C8: the nonces of the accepted transactions increase strictly in the
\* order of submission, whatever the calls.
C8_StrictlyIncreasing ==
    \A i, j \in 1..Len(sent) : i < j => SentNonce(i) < SentNonce(j)

\* what transact does keep: a transaction whose nonce was read after an
\* earlier transaction had been accepted carries a greater nonce than it
IncreasingWhenBuiltAfter ==
    \A i, j \in 1..Len(sent) :
        (i < j /\ sent[j].read_at >= i) => SentNonce(i) < SentNonce(j)

\* transactions build_and_transact sent: the closure's call is their data
FromBuildAndTransact(i) == "data" \in DOMAIN sent[i].raw.tx

\* C9: two build_and_transact flows that both read the nonce before either
\* has sent submit the same nonce, and the local nonce ends higher by the
\* number of transactions sent since that read: by two for the two flows.
C9_InterleavedFlowsShareNonce ==
    \A i, j \in 1..Len(sent) :
        (/\ i < j
         /\ FromBuildAndTransact(i)
         /\ FromBuildAndTransact(j)
         /\ sent[i].read_at = sent[j].read_at) =>
            /\ SentNonce(i) = SentNonce(j)
            /\ nonce = SentNonce(i) + (Len(sent) - sent[i].read_at)
            /\ Len(sent) - sent[i].read_at >= 2

C9_Witness ==
    /\ Len(sent) = 2
    /\ FromBuildAndTransact(1)
    /\ FromBuildAndTransact(2)
    /\ sent[1].read_at = 0
    /\ sent[2].read_at = 0
    /\ SentNonce(1) = SentNonce(2)
    /\ nonce = SentNonce(1) + 2

\* the network info a value stands for, from the class's table
ExpectedInfo(c, value) ==
    IF value.type = "str"
    THEN ("network" :> value.value) @@
         (IF c = "_BaseWallet" THEN network_map[value.value]
                               ELSE NETWORK_MAP[value.value])
    ELSE value.value

\* C10: a network switch that succeeds leaves the new network info, a
\* provider on its endpoint, the transaction count that endpoint answered
\* as the nonce, and (AsyncWallet, Wallet) the endpoint's chain id as the
\* chain id of the transactions built from then on.
C10_SwitchRefetches ==
    [][\A value \in SwitchNetworkInputs \cap ValidNetworkInputs,
          count \in TxCounts :
          (epoch' /= epoch /\ SetNetwork(value, count, TRUE) /\ err' = NoneStr) =>
              /\ network' = ExpectedInfo(cls, value)
              /\ provider'.rpc = network'.rpc
              /\ nonce' = count
              /\ cls \in {"AsyncWallet", "Wallet"} =>
                    /\ chain_id' = LiveChainId(network'.rpc)
                    /\ tx_params_head(0, None)' =
                          [from    |-> public_key,
                           chainId |-> LiveChainId(network'.rpc),
                           nonce   |-> count,
                           value   |-> 0,
                           gas     |-> DefaultGas]]_vars

C10_Witness ==
    /\ status = "ok"
    /\ cls = "AsyncWallet"
    /\ err = NoneStr
    /\ epoch = 1
    /\ Len(sent) = 1
    /\ since = 0
    /\ nonce = fetched
    /\ network.network = "Custom"
    /\ sent[1].rpc /= network.rpc
    /\ chain_id = CustomChainId

\* the four fields of an entry of the network table
TableFields == {"chain_id", "rpc", "token", "explorer"}

\* the table a class looks recognized names up in
TableOf(c) == IF c = "_BaseWallet" THEN network_map ELSE NETWORK_MAP

\* C11: each of the 26 entries of the network table has the four fields,
\* so constructing on any recognized name, the endpoint answering, reads
\* and validates the entry's chain id and succeeds.
C11_TableEntriesComplete ==
    [][\A c \in Classes, key \in PrivateKeys, n \in Network,
          is_async \in BOOLEAN, count \in TxCounts :
          (status = "none"
           /\ Construct(c, key, PyStr(n), is_async, count, TRUE)) =>
              /\ Cardinality(DOMAIN TableOf(c)) = 26
              /\ TableFields \subseteq DOMAIN TableOf(c)[n]
              /\ status' = "ok"
              /\ network'.chain_id = LiveChainId(network'.rpc)]_vars

\* the hex form of a hash: of bytes what hex() gives, of a str the str
HexForm(h) == IF h.type = "str" THEN h.value ELSE hex(h)

\* C12: get_explorer_url returns the explorer URL, '/tx/' and the hex form
\* of the hash for a HexBytes, a bytes or a hex string, raises for a value
\* of another type, and changes nothing of the wallet.
C12_ExplorerUrl ==
    [][(last' /= last /\ last'.op = "get_explorer_url") =>
          LET h == last'.args.tx_hash IN
          /\ UNCHANGED wallet_vars
          /\ IF h.type \in {"HexBytes", "bytes", "str"}
             THEN last'.result =
                      Returned(network.explorer \o "/tx/" \o HexForm(h))
             ELSE last'.result = Raised("TypeError")]_vars

\* the map the statement describes, up to the gas price: the optional gas
\* counts as supplied when it is not None
StatedHead(value, gas) ==
    [from    |-> public_key,
     chainId |-> chain_id,
     nonce   |-> nonce,
     value   |-> value,
     gas     |-> IF gas /= None THEN gas ELSE 250000]

\* the rest of it: to and data are there exactly when given
StatedTail(head, price, recipient, raw_data) ==
    (IF recipient /= NoneStr
     THEN "to" :> to_checksum_address(recipient) ELSE <<>>)
    @@ (IF raw_data /= NoneStr THEN "data" :> raw_data ELSE <<>>)
    @@ ("gasPrice" :> price) @@ head

\* C13: build_transaction_params returns from, chainId, nonce and value
\* from the wallet and the call, the caller's gas or 250000, the caller's
\* gas price or the provider's, to iff a recipient was given and data iff
\* raw_data was given.
C13_BuiltParams ==
    [][/\ \A value \in BuildValues, recipient \in BuildRecipients,
            raw_data \in BuildRawDatas, gas \in BuildGas,
            gas_price \in BuildGasPrices :
            (pc[1] = "idle"
             /\ build_transaction_params(1, value, recipient, raw_data, gas,
                                         gas_price)) =>
                IF gas_price /= None
                THEN /\ ret'[1] = Ret("ok", "tx_params")
                     /\ held'[1].params =
                            StatedTail(StatedHead(value, gas), gas_price,
                                       recipient, raw_data)
                ELSE /\ pc'[1] = "btp_gas_price"
                     /\ tx'[1].params = StatedHead(value, gas)
                     /\ loc'[1].recipient = recipient
                     /\ loc'[1].raw_data = raw_data
       /\ \A price \in {NetGasPrice} :
            (pc[1] = "btp_gas_price" /\ btp_gas_price(1, price)) =>
                /\ ret'[1] = Ret("ok", "tx_params")
                /\ held'[1].params =
                       StatedTail(tx[1].params, price, loc[1].recipient,
                                  loc[1].raw_data)]_vars

\* a call that entered build_and_transact with this closure and value 0
EntersBuildAndTransact(closure) ==
    /\ ret'[1] = Ret("pending", "build_and_transact")
    /\ pc'[1] \in {"bat_gas_price", "bat_closure"}
    /\ loc'[1].closure = closure
    /\ tx'[1].params.value = 0

\* C14: build_and_transact estimates the gas once when the caller gave
\* none and sends the caller's gas otherwise, submits one transaction per
\* successful call, and approve and transfer take this path with value 0.
C14_OneSubmissionPerCall ==
    [][/\ (pc[1] = "bat_closure" /\ bat_closure(1, TRUE, TRUE)) =>
            IF loc[1].gas = None
            THEN /\ pc'[1] = "bat_estimate"
                 /\ "gas" \notin DOMAIN tx'[1].params
            ELSE /\ pc'[1] = "send"
                 /\ tx'[1].params.tx.gas = loc[1].gas
       /\ (pc[1] = "bat_estimate" /\ bat_estimate(1, NetGasEstimate, TRUE)) =>
            /\ pc'[1] = "send"
            /\ tx'[1].params.tx.gas = NetGasEstimate
       /\ (pc[1] = "send" /\ send_raw_transaction(1, TRUE)) =>
            /\ Len(sent') = Len(sent) + 1
            /\ sent'[Len(sent')].raw = tx[1].params
            /\ ret'[1] = Ret("ok", "tx_hash")
            /\ pc'[1] = "idle"
       /\ \A token \in Tokens, spender \in Spenders, amount \in Amounts :
            (pc[1] = "idle" /\ approve(1, token, spender, amount)) =>
                EntersBuildAndTransact(
                    Closure(to_checksum_address(token), "approve",
                            <<to_checksum_address(spender), amount>>))
       /\ \A token \in Tokens, recipient \in Recipients, amount \in Amounts,
             g \in GasArgs :
            (pc[1] = "idle" /\ transfer(1, token, recipient, amount, g[1], g[2])) =>
                EntersBuildAndTransact(
                    Closure(to_checksum_address(token), "transfer",
                            <<to_checksum_address(recipient), amount>>))]_vars

RECURSIVE Reverse(_)
Reverse(q) == IF q = <<>> THEN <<>> ELSE Append(Reverse(Tail(q)), Head(q))

\* the transactions of a chain, newest first
RECURSIVE NewestFirst(_)
NewestFirst(chain) ==
    IF chain = <<>> THEN <<>>
    ELSE Reverse(chain[Len(chain)])
         \o NewestFirst(SubSeq(chain, 1, Len(chain) - 1))

\* from or to is the wallet's address, in any case; no to is no match
IsOfWallet(t) ==
    \/ LowerOf[t.from] = LowerOf[public_key]
    \/ t.to /= NoneStr /\ LowerOf[t.to] = LowerOf[public_key]

\* the block numbers from n down to 0
RECURSIVE Descending(_)
Descending(n) == IF n < 0 THEN <<>> ELSE <<n>> \o Descending(n - 1)

\* C15: get_transactions visits each block from the latest down to 0 once
\* and returns the transactions from or to the wallet, newest first, on
\* every chain, contract creations included, changing nothing of the wallet.
C15_HistoryScan ==
    [][(last' /= last /\ last'.op = "get_transactions") =>
          LET chain == last'.answers.chain IN
          /\ UNCHANGED wallet_vars
          /\ last'.calls = Descending(Len(chain) - 1)
          /\ last'.result = Returned(SelectSeq(NewestFirst(chain), IsOfWallet))]_vars

\* C16: a network switch that fails at any step leaves network info,
\* provider, nonce and chain id as they were, so that in every state the
\* provider is on the network info's endpoint and the chain id is that
\* endpoint's.
C16_SetterAllOrNothing ==
    [][/\ \A value \in SwitchNetworkInputs, count \in TxCounts \cup {None},
            chain_ok \in BOOLEAN :
            (status = "ok" /\ SetNetwork(value, count, chain_ok)
             /\ err' /= NoneStr) =>
                UNCHANGED <<network, provider, nonce, chain_id>>
       /\ status' = "ok" =>
            /\ provider'.rpc = network'.rpc
            /\ cls' \in {"AsyncWallet", "Wallet"} =>
                   chain_id' = LiveChainId(network'.rpc)]_vars

\* no read-only call has answered in the step (the operation is compared
\* first: the records of two operations hold values of different types)
NoAnswer == last'.op = last.op /\ last' = last

\* a step of the network setter, failed or not
SetterStep ==
    /\ NoAnswer
    /\ \E value \in SwitchNetworkInputs, count \in TxCounts \cup {None},
          chain_ok \in BOOLEAN : SetNetwork(value, count, chain_ok)

\* a step of build_transaction_params: its start, its resumption, or its
\* immediate return with the parameters
BuildStep ==
    \E p \in Procs :
        \/ pc[p] = "btp_gas_price"
        \/ pc'[p] = "btp_gas_price"
        \/ pc[p] = "idle" /\ pc'[p] = "idle" /\ held'[p] /= held[p]

\* a step of transact that ends it: send_raw_transaction answered or raised
SendStep == \E p \in Procs : pc[p] = "send" /\ pc'[p] = "idle"

\* C17: once the wallet is constructed its private key and public address
\* never change; the read-only operations (those that record an answer in
\* last, and build_transaction_params) leave nonce, network info and chain id
\* as they are; the nonce changes only when transact ends, by one, or at a
\* step of the network setter; network info and chain id change only at a
\* step of the network setter.
C17_Frame ==
    [][status = "ok" =>
          /\ UNCHANGED <<private_key, public_key>>
          /\ (~NoAnswer \/ BuildStep) =>
                 UNCHANGED <<nonce, network, chain_id>>
          /\ nonce' /= nonce =>
                 \/ SendStep /\ nonce' = nonce + 1
                 \/ SetterStep
          /\ (network' /= network \/ chain_id' /= chain_id) => SetterStep]_vars

\* the wallet has switched network, has sent a transaction on the new
\* network, holds built parameters and has just answered a history query,
\* with the key and address it was constructed with
C17_Witness ==
    /\ status = "ok"
    /\ epoch = 1
    /\ Len(sent) >= 1
    /\ sent[Len(sent)].read_epoch = 1
    /\ held[1] /= NoTx
    /\ last.op = "get_transactions"
    /\ private_key \in PrivateKeys
    /\ public_key = to_checksum_address(AccountAddress(private_key))
    /\ nonce = MaxCount + 1

=============================================================================
